---- MODULE Spec2Model ----
(***************************************************************************)
(* NutriScan (app.py): a Flask application that classifies an uploaded     *)
(* food photo, scales the per-100g nutrient estimate by the portion size,  *)
(* prepends the result to history.json and derives daily needs from        *)
(* user_profile.json.                                                      *)
(*                                                                         *)
(* Numbers.  Nutrient values, calories and scores are Python floats,       *)
(* modelled as exact fixed-point numbers in thousandths ("milli"): the     *)
(* float 52.125 is the integer 52125.  Quantities (grams) and the profile  *)
(* fields (kg, cm, years) are drawn as whole numbers and kept in units.    *)
(* Every value drawn below makes the products the code forms exactly       *)
(* representable or not a decimal tie, so Python's round(), which rounds   *)
(* the binary value half to even, agrees with RoundHE on the exact value.  *)
(***************************************************************************)
EXTENDS Integers, Sequences, FiniteSets, TLC

VARIABLES
    history,      \* history.json: [st: "absent" | "unreadable" | "json", data: Seq(entry)]
    profile,      \* user_profile.json: [st: "absent" | "json", data: profile record]
    uploads,      \* static/uploads: set of [name, kind], kind "image" or "junk"
    session,      \* client -> session["last_image"] (NoFile when unset)
    GENAI,        \* the module-level Gemini client: TRUE when connected
    now,          \* wall clock, in ticks of 1/TicksPerSec second
    pc,           \* worker thread -> position inside the /predict handler it runs
    local,        \* worker thread -> the /predict handler's local variables
    resp,         \* the response the last step sent (NoResp when it sent none)
    stored,       \* ghost: every entry ever written to history.json
    analyzed,     \* ghost: <<client, filename>> of every /analyze that saved a file
    lastDump,     \* ghost: [old, entry] of the last json.dump into history.json
    nscan,        \* ghost: number of /predict requests that went on to persist
    sc_in,        \* compute_nutrition harness: the arguments
    sc_out,       \* compute_nutrition harness: the returned (final, calories)
    adv_in,       \* generate_personalized_recommendations harness: the arguments
    adv_out       \* generate_personalized_recommendations harness: locals and result

vars == <<history, profile, uploads, session, GENAI, now, pc, local, resp,
          stored, analyzed, lastDump, nscan, sc_in, sc_out, adv_in, adv_out>>

(***************************************************************************)
(* Raw values, as they arrive in JSON or in a form field.                  *)
(***************************************************************************)
Num(n) == [t |-> "num", v |-> n]          \* a JSON number (milli)
NumStr(n) == [t |-> "numstr", v |-> n]    \* a string spelling a number: "250", " 1,200 "
Text == [t |-> "text", v |-> 0]           \* a non-empty string that spells no number
Null == [t |-> "null", v |-> 0]           \* JSON null / Python None
Empty == [t |-> "empty", v |-> 0]         \* the empty string
Missing == [t |-> "missing", v |-> 0]     \* the key is not there
List == [t |-> "list", v |-> 0]           \* a JSON array or object where a scalar is expected

\* Raw values in the place of a name (main_food, label); v is the text json.dump
\* writes when the value is used as an object key.
Str(s) == [t |-> "str", v |-> s]
NameNum == [t |-> "num", v |-> "5"]
NameNull == [t |-> "null", v |-> "null"]
NameList == [t |-> "list", v |-> "[]"]
NameMissing == [t |-> "missing", v |-> ""]

\* dict.get(key, default) on a raw value
Get(x, default) == IF x.t = "missing" THEN default ELSE x

\* float(str(x).replace(",", "").strip()), 0.0 when float() raises
safe_float(x) == IF x.t \in {"num", "numstr"} THEN x.v ELSE 0

\* Python truthiness of a raw value
Truthy(x) ==
    CASE x.t = "num" -> x.v # 0
      [] x.t = "numstr" -> TRUE
      [] x.t = "text" -> TRUE
      [] OTHER -> FALSE

\* num/den (den > 0) rounded to the nearest integer, ties to even: round()
RoundHE(num, den) ==
    LET q == num \div den
        r == num % den
    IN  IF 2 * r < den THEN q
        ELSE IF 2 * r > den THEN q + 1
        ELSE IF q % 2 = 0 THEN q ELSE q + 1

\* round(x, 2) of the milli value num/den: a multiple of 10 milli
Round2(num, den) == 10 * RoundHE(num, den * 10)

(***************************************************************************)
(* Nutrition Math: compute_nutrition(nut_map, qty, calories100)            *)
(***************************************************************************)
keys == <<"protein", "calcium", "fat", "carbohydrates", "vitamins">>

\* a scaling that takes the quantity itself as the factor
ScaledValuePerGram(v, qty) == Round2(v * qty, 1)

\* round(v * factor, 2) with factor = qty / 100.0; v in milli, qty in grams
ScaledValue(v, qty) == Round2(v * qty, 100)

\* a branch that asks whether the numeric value is non-zero
UsesNonZeroCalories(calories100) == safe_float(calories100) # 0

\* the branch of line 353: `if calories100:`
UsesProvidedCalories(calories100) == Truthy(calories100)

compute_nutrition(nut_map, qty, calories100) ==
    LET final == [i \in 1..5 |->
                    [name |-> keys[i],
                     value |-> ScaledValue(safe_float(Get(nut_map[keys[i]], Num(0))), qty)]]
        p == final[1].value
        c == final[4].value
        f == final[3].value
        calories == IF UsesProvidedCalories(calories100)
                    THEN ScaledValue(safe_float(calories100), qty)
                    ELSE Round2(p * 4 + c * 4 + f * 9, 1)
    IN  [final |-> final, calories |-> calories]

(***************************************************************************)
(* Harness for compute_nutrition: the arguments are drawn from bounded     *)
(* sets and the function is applied once.                                  *)
(***************************************************************************)
ScaleProteins == {Num(0), Num(10000), Num(3125), NumStr(10000), Text, Missing}
ScaleFats == {Num(0), Num(5000), Missing}
ScaleCarbs == {Num(0), Num(20000), Num(125)}
ScaleMinerals == {Num(0), Num(2500)}
ScaleQuantities == {0, 50, 100, 200, 33, -100}
ScaleCalories == {Num(0), Num(250000), Num(52125), NumStr(250000), NumStr(0), Text, Null}

ScaleIdle == [done |-> FALSE, final |-> <<>>, calories |-> 0]

InitScale ==
    /\ \E p \in ScaleProteins, f \in ScaleFats, c \in ScaleCarbs, m \in ScaleMinerals,
          q \in ScaleQuantities, k \in ScaleCalories :
          sc_in = [nut_map |-> [protein |-> p, calcium |-> m, fat |-> f,
                                carbohydrates |-> c, vitamins |-> Num(0)],
                   qty |-> q, calories100 |-> k]
    /\ sc_out = ScaleIdle

ComputeNutrition ==
    /\ ~sc_out.done
    /\ LET r == compute_nutrition(sc_in.nut_map, sc_in.qty, sc_in.calories100)
       IN  sc_out' = [done |-> TRUE, final |-> r.final, calories |-> r.calories]
    /\ UNCHANGED sc_in

(***************************************************************************)
(* Daily-Needs Calculator: calculate_daily_needs(profile)                  *)
(* weight, height and age are whole numbers here, so 4*bmr is an integer.  *)
(***************************************************************************)
\* 4 * bmr with the female constant for everyone
BMR4NoSex(p) == 40 * p.weight + 25 * p.height - 20 * p.age - 644

\* 4 * bmr (Mifflin-St Jeor): bmr = 10*weight + 6.25*height - 5*age + 5 or - 161
BMR4(p) ==
    IF p.gender = "male"
    THEN 40 * p.weight + 25 * p.height - 20 * p.age + 20
    ELSE 40 * p.weight + 25 * p.height - 20 * p.age - 644

\* 40 * activity_multipliers.get(activity_level, 1.55)
ActivityMultiplier40(a) ==
    CASE a = "sedentary" -> 48
      [] a = "light" -> 55
      [] a = "moderate" -> 62
      [] a = "active" -> 69
      [] a = "very_active" -> 76
      [] OTHER -> 62

\* 20 * goal_adjustments.get(goal, 1.0)
GoalAdjustment20(g) ==
    CASE g = "lose" -> 17
      [] g = "maintain" -> 20
      [] g = "gain" -> 23
      [] OTHER -> 20

\* 160 * tdee
TDEE160(p) == BMR4(p) * ActivityMultiplier40(p.activity_level)

\* 3200 * daily_calories (before rounding)
DailyCalories3200(p) == TDEE160(p) * GoalAdjustment20(p.goal)

calculate_daily_needs(p) ==
    LET n == DailyCalories3200(p)
    IN  [daily_calories |-> RoundHE(n, 3200),
         protein |-> RoundHE(n * 3, 3200 * 40),
         fat |-> RoundHE(n, 3200 * 36),
         carbs |-> RoundHE(n * 9, 3200 * 80),
         sugar_limit |-> RoundHE(n, 3200 * 40),
         fiber_target |-> 25]

(***************************************************************************)
(* Vision Classification Adapter: analyze_with_gemini(image_bytes)         *)
(*                                                                         *)
(* The model's reply is a record                                           *)
(*   text: "json" (a JSON object), "wrapped" (an object inside chatter),   *)
(*         "garbage" (no parsable object), "nonobject" (valid JSON that    *)
(*         is not an object);                                              *)
(*   main_food, calories_per100g: raw values;                              *)
(*   top: [t: "missing" | "null" | "scalar" | "list", items: Seq(item)],   *)
(*        item = [isdict, label, score];                                   *)
(*   nutrition_per100g: [t: "missing" | "dict" | "notdict", map];          *)
(*   hygiene: [t: "missing" | "dict" | "notdict", score, reasons].         *)
(***************************************************************************)
Ok(g) == [ok |-> TRUE, err |-> "", gem |-> g]
Err(e) == [ok |-> FALSE, err |-> e, gem |-> <<>>]

\* str.lower() on the labels the replies below use
Lower(s) ==
    CASE s = "Pizza" -> "pizza"
      [] s = "SALAD" -> "salad"
      [] OTHER -> s

\* t.get("label", "").lower() succeeds only on a string
LabelIsString(item) == Get(item.label, Str("")).t = "str"

LowerLabel(item) == Str(Lower(Get(item.label, Str("")).v))

\* sc = safe_float(score); if sc <= 1: sc *= 100; round(sc, 1)   (milli)
NormScore(score) ==
    LET sc == safe_float(score)
        s2 == IF sc <= 1000 THEN sc * 100 ELSE sc
    IN  100 * RoundHE(s2, 100)

\* json.loads(text), then json.loads(text[s:e+1]) between the first "{" and last "}"
ParseOutcome(text) ==
    CASE text = "json" -> "object"
      [] text = "wrapped" -> "object"
      [] text = "nonobject" -> "nonobject"
      [] OTHER -> "JSONDecodeError"

\* the loop of lines 325-330 raises on a non-iterable top, a non-dict item or a non-string label
TopRaises(top) ==
    \/ top.t \in {"null", "scalar"}
    \/ /\ top.t = "list"
       /\ \E i \in 1..Len(top.items) : ~top.items[i].isdict \/ ~LabelIsString(top.items[i])

Preds(r) ==
    LET items == IF r.top.t = "list" THEN r.top.items ELSE <<>>
        preds == [i \in 1..Len(items) |->
                    [label |-> LowerLabel(items[i]), score |-> NormScore(items[i].score)]]
    IN  IF preds = <<>>
        THEN <<[label |-> Get(r.main_food, Str("food")), score |-> 85000]>>
        ELSE preds

\* int(x): truncation of a number, the value of an integer literal, else an exception
IntRaises(x) ==
    \/ x.t \in {"text", "empty", "null", "list", "str"}
    \/ x.t = "numstr" /\ x.v % 1000 # 0

IntOf(x) == IF x.v >= 0 THEN x.v \div 1000 ELSE -((-x.v) \div 1000)

\* int(parsed.get("hygiene", {}).get("score", 60)) raises
HygieneRaises(h) ==
    \/ h.t = "notdict"
    \/ h.t = "dict" /\ IntRaises(Get(h.score, Num(60000)))

HygieneScore(h) == IF h.t = "missing" THEN 60 ELSE IntOf(Get(h.score, Num(60000)))

HygieneReasons(h) ==
    IF h.t = "missing" THEN <<>> ELSE Get(h.reasons, [t |-> "list", v |-> <<>>]).v

NutritionPer100g(r) ==
    IF r.nutrition_per100g.t = "missing"
    THEN [t |-> "dict", map |-> [k \in {keys[i] : i \in 1..5} |-> Missing]]
    ELSE r.nutrition_per100g

\* genai: GENAI is not None; image: what Image.open makes of the bytes;
\* api: [outcome: "raise" | "text", r: reply]
analyze_with_gemini(genai, image, api) ==
    IF ~genai THEN Err("Gemini not available")
    ELSE IF image # "image" THEN Err("Invalid Image")
    ELSE IF api.outcome = "raise" THEN Err("APIError")
    ELSE IF ParseOutcome(api.r.text) = "JSONDecodeError" THEN Err("JSONDecodeError")
    ELSE IF ParseOutcome(api.r.text) = "nonobject" THEN Err("AttributeError")
    ELSE IF TopRaises(api.r.top) THEN Err("AttributeError")
    ELSE IF HygieneRaises(api.r.hygiene) THEN Err("ValueError")
    ELSE Ok([main_food |-> Get(api.r.main_food, Str("unknown")),
             top |-> Preds(api.r),
             nutrition_per100g |-> NutritionPer100g(api.r),
             calories_per100g |-> Get(api.r.calories_per100g, Num(0)),
             hygiene_score |-> HygieneScore(api.r.hygiene),
             hygiene_reasons |-> HygieneReasons(api.r.hygiene)])

(***************************************************************************)
(* Web Route Layer: shared state                                           *)
(***************************************************************************)
Workers == {"w1", "w2"}
Clients == {"c1", "c2"}

MaxUploads == 1       \* /analyze requests that save a file
MaxScans == 2         \* /predict requests that go on to persist
MaxClock == 2         \* last tick of the clock
TicksPerSec == 2      \* clock ticks per second

NoFile == [sec |-> -1, ext |-> ""]                 \* session.get("last_image") is None
ALLOWED == {".jpg", ".jpeg", ".png", ".webp"}

\* str.lower() on the extensions the uploads below use
LowerExt(e) == IF e = ".PNG" THEN ".png" ELSE e

\* datetime.now().strftime("%Y-%m-%d %H:%M:%S") and int(datetime.now().timestamp()):
\* both keep the whole second of the clock
Strftime(t) == t \div TicksPerSec

\* f"food_{int(datetime.now().timestamp())}{ext}"
UploadName(t, fileext) ==
    LET e == LowerExt(fileext)
    IN  [sec |-> Strftime(t), ext |-> IF e \in ALLOWED THEN e ELSE ".jpg"]

\* file.save(path): creates or overwrites the file of that name
SaveFile(files, name, kind) ==
    {u \in files : u.name # name} \cup {[name |-> name, kind |-> kind]}

\* a reader that takes every upload for an image
ReadAsImage(files, name) == "image"

\* read_bytes(full_path) followed by Image.open: "none" when the file cannot be read
ReadImage(files, name) ==
    IF \E u \in files : u.name = name
    THEN (CHOOSE u \in files : u.name = name).kind
    ELSE "none"

\* a URL that names no file
UrlForFolder(name) == [path |-> "/static/uploads/", name |-> NoFile]

\* url_for("static", filename=f"uploads/{filename}")
UrlFor(name) == [path |-> "/static/uploads/", name |-> name]

\* json.load(open(history_file)) guarded by exists/getsize and try/except: [] on failure
ReadOld(h) == IF h.st = "json" THEN h.data ELSE <<>>

\* one key of a dict to a JSON object key: json.dump writes every key as a string
DumpKey(kv) == [k |-> Str(kv.k.v), v |-> kv.v]

\* a dump that loses the timestamp
JsonEntryUnstamped(e) == [e EXCEPT !.timestamp = -1]

\* an entry as json.dump writes it and json.load reads it back
JsonEntry(e) == [e EXCEPT !.result = [i \in 1..Len(e.result) |-> DumpKey(e.result[i])]]

JsonDump(list) == [i \in 1..Len(list) |-> JsonEntry(list[i])]

\* a store that keeps the new entry only
OnlyEntry(old, entry) == <<entry>>

\* a store that drops the new entry
KeepOld(old, entry) == old

\* a store that puts the new entry last
AppendEntry(old, entry) == old \o <<entry>>

\* old.insert(0, entry)
InsertEntry(old, entry) == <<entry>> \o old

\* d[k] = v on a dict kept as a sequence of [k, v] in insertion order
DictPut(d, k, v) ==
    IF \E i \in 1..Len(d) : d[i].k = k
    THEN [i \in 1..Len(d) |-> IF d[i].k = k THEN [k |-> k, v |-> v] ELSE d[i]]
    ELSE Append(d, [k |-> k, v |-> v])

RECURSIVE DictOf(_, _)
\* {t["label"]: t["score"] for t in top}
DictOf(top, n) ==
    IF n = 0 THEN <<>> ELSE DictPut(DictOf(top, n - 1), top[n].label, top[n].score)

NoLocal == [client |-> "", filename |-> NoFile, result |-> <<>>, whole |-> <<>>,
            old |-> <<>>, entry |-> <<>>, raced |-> FALSE, dirty |-> FALSE]

NoResp == [route |-> "", kind |-> "none"]

NoDump == [old |-> <<>>, entry |-> <<>>]

ScaleParked == [nut_map |-> <<>>, qty |-> 0, calories100 |-> Num(0)]

InitWeb ==
    /\ history = [st |-> "absent", data |-> <<>>]
    /\ profile = [st |-> "absent", data |-> <<>>]
    /\ uploads = {}
    /\ session = [c \in Clients |-> NoFile]
    /\ GENAI \in BOOLEAN
    /\ now = 0
    /\ pc = [p \in Workers |-> "idle"]
    /\ local = [p \in Workers |-> NoLocal]
    /\ resp = NoResp
    /\ stored = {}
    /\ analyzed = {}
    /\ lastDump = NoDump
    /\ nscan = 0

\* a request is served by a thread of its own: the first free slot stands for it
FreeWorker == IF pc["w1"] = "idle" THEN "w1" ELSE "w2"

Tick ==
    /\ now < MaxClock
    /\ now' = now + 1
    /\ resp' = NoResp
    /\ UNCHANGED <<history, profile, uploads, session, GENAI, pc, local,
                   stored, analyzed, lastDump, nscan, sc_in, sc_out, adv_in, adv_out>>

(***************************************************************************)
(* Inputs of the web requests                                              *)
(***************************************************************************)
UploadForms ==
    {[present |-> FALSE, ext |-> "", kind |-> "image"],
     [present |-> TRUE, ext |-> ".PNG", kind |-> "image"],
     [present |-> TRUE, ext |-> ".gif", kind |-> "image"],
     [present |-> TRUE, ext |-> ".png", kind |-> "junk"]}

QuantityArgs == {Missing, NumStr(200), Text}

GoodReply ==
    [text |-> "json",
     main_food |-> Str("Pizza"),
     top |-> [t |-> "list",
              items |-> <<[isdict |-> TRUE, label |-> Str("Pizza"), score |-> Num(950)]>>],
     nutrition_per100g |->
         [t |-> "dict",
          map |-> [protein |-> Num(10000), calcium |-> Num(5000), fat |-> Num(9000),
                   carbohydrates |-> Num(20000), vitamins |-> NumStr(2125)]],
     calories_per100g |-> Num(250000),
     hygiene |-> [t |-> "dict", score |-> Num(75000),
                  reasons |-> [t |-> "list", v |-> <<"clean surface">>]]]

SparseReply ==
    [text |-> "wrapped",
     main_food |-> NameMissing,
     top |-> [t |-> "missing", items |-> <<>>],
     nutrition_per100g |-> [t |-> "missing", map |-> <<>>],
     calories_per100g |-> Missing,
     hygiene |-> [t |-> "missing", score |-> Missing, reasons |-> Missing]]

Replies ==
    {GoodReply,
     SparseReply,
     [GoodReply EXCEPT !.text = "wrapped"],
     [GoodReply EXCEPT !.text = "garbage"],
     [GoodReply EXCEPT !.text = "nonobject"],
     [GoodReply EXCEPT !.top = [t |-> "scalar", items |-> <<>>]],
     [GoodReply EXCEPT !.top.items = <<[isdict |-> TRUE, label |-> NameNum, score |-> Num(950)]>>],
     [GoodReply EXCEPT !.top.items = <<[isdict |-> TRUE, label |-> Str("Pizza"), score |-> Num(150000)],
                                       [isdict |-> TRUE, label |-> Str("SALAD"), score |-> Num(-500)],
                                       [isdict |-> TRUE, label |-> Str("rice"), score |-> Text]>>],
     [GoodReply EXCEPT !.hygiene.score = Text],
     [GoodReply EXCEPT !.hygiene = [t |-> "notdict", score |-> Missing, reasons |-> Missing]],
     [GoodReply EXCEPT !.nutrition_per100g = [t |-> "notdict", map |-> <<>>]],
     [SparseReply EXCEPT !.main_food = NameNum],
     [SparseReply EXCEPT !.main_food = NameList]}

ApiOutcomes == {[outcome |-> "raise", r |-> SparseReply]} \cup
               {[outcome |-> "text", r |-> r] : r \in Replies}

(***************************************************************************)
(* POST /analyze                                                           *)
(***************************************************************************)
Analyze(c, f) ==
    /\ IF ~f.present
       THEN /\ resp' = [route |-> "/analyze", kind |-> "text", body |-> "No file uploaded"]
            /\ UNCHANGED <<uploads, session, analyzed>>
       ELSE LET filename == UploadName(now, f.ext)
            IN  /\ Cardinality(analyzed) < MaxUploads
                /\ uploads' = SaveFile(uploads, filename, f.kind)
                /\ session' = [session EXCEPT ![c] = filename]
                /\ analyzed' = analyzed \cup {<<c, filename>>}
                /\ resp' = [route |-> "/analyze", kind |-> "redirect", to |-> "/predict"]
    /\ UNCHANGED <<history, profile, GENAI, now, pc, local, stored, lastDump, nscan,
                   sc_in, sc_out, adv_in, adv_out>>

(***************************************************************************)
(* GET /predict, in the steps at which it writes shared state:             *)
(*   PredictStart  lines 836-873  session, image file, classifier,         *)
(*                                scaling, read of history.json, timestamp *)
(*   PredictOpen   line 874       open(history_file, "w") truncates        *)
(*   PredictDump   lines 874-876  json.dump, close, render                 *)
(* Lines 836-861 read only the session, the upload and the classifier and  *)
(* lines 864-873 read only history.json and the clock, so a handler whose  *)
(* read of history.json comes later than its classification behaves like   *)
(* one that started later: the two parts form one step.                    *)
(***************************************************************************)
\* a check that never finds the session empty
AlwaysLastImage(filename) == FALSE

\* `if not filename`
NoLastImage(filename) == filename = NoFile

Whole(nut) ==
    <<[name |-> "protein", value |-> nut[1].value],
      [name |-> "calcium", value |-> nut[2].value],
      [name |-> "fat", value |-> nut[3].value],
      [name |-> "carbohydrates", value |-> nut[4].value],
      [name |-> "vitamins", value |-> nut[5].value]>>

\* the ghost fields every /predict response carries: what the handler saw
Saw(c, filename, image, api, classified) ==
    [route |-> "/predict", client |-> c, saw |-> filename, image |-> image, api |-> api,
     classified |-> classified]

PredictStart(p, c, quantity, api) ==
    /\ pc[p] = "idle"
    /\ LET qty == safe_float(Get(quantity, Num(100)))
           filename == session[c]
           image == ReadImage(uploads, filename)
           r == analyze_with_gemini(GENAI, image, api)
           gem == r.gem
           nc == compute_nutrition(gem.nutrition_per100g.map, qty, gem.calories_per100g)
           result == [image |-> UrlFor(filename),
                      main_food |-> gem.main_food,
                      result |-> DictOf(gem.top, Len(gem.top)),
                      nutrition |-> nc.final,
                      quantity |-> qty,
                      calories |-> nc.calories,
                      hygiene_score |-> gem.hygiene_score,
                      hygiene_reasons |-> gem.hygiene_reasons]
       IN  IF NoLastImage(filename)
           THEN /\ resp' = Saw(c, filename, "none", "none", FALSE) @@
                           [kind |-> "results", pack |-> <<>>, whole_nutrition |-> <<>>,
                            recommendations |-> <<>>]
                /\ UNCHANGED <<pc, local, nscan>>
           ELSE IF ~r.ok
           THEN /\ resp' = Saw(c, filename, image, api.outcome, TRUE) @@
                           [kind |-> "text", body |-> "Gemini error", msg |-> r.err]
                /\ UNCHANGED <<pc, local, nscan>>
           ELSE IF gem.nutrition_per100g.t # "dict"
           THEN \* nut_map.get raises AttributeError outside the try
                /\ resp' = Saw(c, filename, image, api.outcome, TRUE) @@
                           [kind |-> "500", error |-> "AttributeError"]
                /\ UNCHANGED <<pc, local, nscan>>
           ELSE IF \E i \in 1..Len(gem.top) : gem.top[i].label.t = "list"
           THEN \* an unhashable label as a dict key raises TypeError outside the try
                /\ resp' = Saw(c, filename, image, api.outcome, TRUE) @@
                           [kind |-> "500", error |-> "TypeError"]
                /\ UNCHANGED <<pc, local, nscan>>
           ELSE /\ nscan < MaxScans
                /\ nscan' = nscan + 1
                /\ local' = [local EXCEPT ![p] =
                                [client |-> c, filename |-> filename,
                                 result |-> result,
                                 whole |-> Whole(nc.final),
                                 old |-> ReadOld(history),
                                 entry |-> result @@
                                           [timestamp |-> Strftime(now),
                                            whole_nutrition |-> Whole(nc.final)],
                                 raced |-> (history.st = "unreadable"),
                                 dirty |-> FALSE]]
                /\ pc' = [pc EXCEPT ![p] = "predict_open"]
                /\ resp' = NoResp
    /\ UNCHANGED <<history, profile, uploads, session, GENAI, now, stored, analyzed,
                   lastDump, sc_in, sc_out, adv_in, adv_out>>

\* the other handlers between their read and their write of history.json
InWindow(q) == pc[q] \in {"predict_open", "predict_dump"}

PredictOpen(p) ==
    /\ pc[p] = "predict_open"
    /\ history' = [st |-> "unreadable", data |-> <<>>]
    /\ local' = [q \in Workers |->
                    IF q # p /\ InWindow(q) THEN [local[q] EXCEPT !.raced = TRUE]
                    ELSE local[q]]
    /\ pc' = [pc EXCEPT ![p] = "predict_dump"]
    /\ resp' = NoResp
    /\ UNCHANGED <<profile, uploads, session, GENAI, now, stored, analyzed,
                   lastDump, nscan, sc_in, sc_out, adv_in, adv_out>>

\* Two handlers that both hold the file open write from offset 0: the later close
\* leaves its own text, followed by the tail of the earlier text when that is longer.
PredictDump(p) ==
    /\ pc[p] = "predict_dump"
    /\ LET content == JsonDump(InsertEntry(local[p].old, local[p].entry))
       IN  \E torn \in (IF local[p].dirty THEN BOOLEAN ELSE {FALSE}) :
              /\ history' = IF torn THEN [st |-> "unreadable", data |-> <<>>]
                            ELSE [st |-> "json", data |-> content]
              /\ stored' = IF torn \/ content = <<>> THEN stored
                           ELSE stored \cup {content[1]}
    /\ lastDump' = [old |-> local[p].old, entry |-> local[p].entry]
    /\ local' = [q \in Workers |->
                    IF q = p THEN NoLocal
                    ELSE IF InWindow(q)
                    THEN [local[q] EXCEPT !.raced = TRUE,
                                          !.dirty = @ \/ pc[q] = "predict_dump"]
                    ELSE local[q]]
    /\ resp' = Saw(local[p].client, local[p].filename, "image", "text", TRUE) @@
               [kind |-> "results", pack |-> <<local[p].result>>,
                whole_nutrition |-> local[p].whole, recommendations |-> <<>>]
    /\ pc' = [pc EXCEPT ![p] = "idle"]
    /\ UNCHANGED <<profile, uploads, session, GENAI, now, analyzed, nscan, sc_in, sc_out, adv_in, adv_out>>

(***************************************************************************)
(* User Profile Management                                                 *)
(* created_at, which no computation reads, is left out of the record.      *)
(***************************************************************************)
DefaultProfile ==
    [weight |-> 70, height |-> 170, age |-> 30, gender |-> "male",
     activity_level |-> "moderate", goal |-> "maintain"]

\* get_user_profile(): the stored profile, or the default one, which it then saves
LoadedProfile(pf) == IF pf.st = "json" THEN pf.data ELSE DefaultProfile

ProfileAfterGet(pf) == [st |-> "json", data |-> LoadedProfile(pf)]

\* request.form.get(name, default) for the text fields
FormText(x, default) == IF x.t = "missing" THEN default ELSE x.v

\* profile_data.update({...}) of POST /profile
ProfileFromForm(old, form) ==
    [old EXCEPT !.weight = safe_float(Get(form.weight, Num(70))),
                !.height = safe_float(Get(form.height, Num(170))),
                !.age = safe_float(Get(form.age, Num(30))),
                !.gender = FormText(form.gender, "male"),
                !.activity_level = FormText(form.activity_level, "moderate"),
                !.goal = FormText(form.goal, "maintain")]

(***************************************************************************)
(* Pages that read history.json                                            *)
(***************************************************************************)
\* time_ago(ts) at clock t
time_ago(ts, t) ==
    LET seconds == (t - ts * TicksPerSec) \div TicksPerSec
        minutes == seconds \div 60
        hours == seconds \div 3600
        days == seconds \div 86400
    IN  IF seconds < 60 THEN [n |-> 0, unit |-> "Just now"]
        ELSE IF minutes < 60 THEN [n |-> minutes, unit |-> "mins ago"]
        ELSE IF hours < 24 THEN [n |-> hours, unit |-> "hours ago"]
        ELSE [n |-> days, unit |-> "days ago"]

\* the entries of the last 7 days: get_weekly_nutrition()
RECURSIVE WeeklyOf(_, _)
WeeklyOf(list, t) ==
    IF list = <<>> THEN <<>>
    ELSE IF Head(list).timestamp * TicksPerSec >= t - 7 * 86400 * TicksPerSec
    THEN <<Head(list)>> \o WeeklyOf(Tail(list), t)
    ELSE WeeklyOf(Tail(list), t)

get_weekly_nutrition(h, t) == WeeklyOf(ReadOld(h), t)

RECURSIVE SumOf(_, _)
\* sum(entry.get(field, 0) for entry in list), field "calories" or "hygiene_score"
SumOf(list, field) ==
    IF list = <<>> THEN 0
    ELSE (IF field = "calories" THEN Head(list).calories ELSE Head(list).hygiene_score)
         + SumOf(Tail(list), field)

Max(a, b) == IF a >= b THEN a ELSE b
FirstN(list, n) == SubSeq(list, 1, IF Len(list) < n THEN Len(list) ELSE n)

(***************************************************************************)
(* Recommendations: generate_personalized_recommendations(weekly_data,     *)
(* daily_needs).  Sums are in milli, needs in whole units.                 *)
(***************************************************************************)
\* an empty answer
NoAdvice == <<>>

\* line 222
StartTracking == <<"Start tracking your food to get personalized recommendations!">>

\* weekly_data[:7]
FirstSeven(weekly_data) == FirstN(weekly_data, 7)

\* total_days = min(len(weekly_data), 7)
TotalDays(weekly_data) == IF Len(weekly_data) < 7 THEN Len(weekly_data) ELSE 7

RECURSIVE NutrientOf(_, _)
\* the sum of the values of the items of an entry's nutrition list that carry the name
NutrientOf(nutrition, name) ==
    IF nutrition = <<>> THEN 0
    ELSE (IF Head(nutrition).name = name THEN Head(nutrition).value ELSE 0)
         + NutrientOf(Tail(nutrition), name)

RECURSIVE TotalsOf(_)
\* the loop of lines 234-243 over the entries it is given
TotalsOf(list) ==
    IF list = <<>> THEN [calories |-> 0, protein |-> 0, fat |-> 0, carbs |-> 0, sugar |-> 0]
    ELSE LET e == Head(list)
             t == TotalsOf(Tail(list))
         IN  [calories |-> t.calories + e.calories,
              protein |-> t.protein + NutrientOf(e.nutrition, "protein"),
              fat |-> t.fat + NutrientOf(e.nutrition, "fat"),
              carbs |-> t.carbs + NutrientOf(e.nutrition, "carbohydrates"),
              sugar |-> 0]

WeeklyTotals(weekly_data) == TotalsOf(FirstSeven(weekly_data))

\* (total / days) / need > a / b, for days > 0 and need # 0; total in milli
RatioAbove(total, days, need, a, b) ==
    IF need > 0 THEN total * b > a * days * need * 1000
    ELSE total * b < a * days * need * 1000

\* (total / days) / need < a / b
RatioBelow(total, days, need, a, b) ==
    IF need > 0 THEN total * b < a * days * need * 1000
    ELSE total * b > a * days * need * 1000

\* the first division of lines 252-275 whose divisor is 0 raises ZeroDivisionError
AdviceRaises(weekly_data, daily_needs) ==
    /\ weekly_data # <<>>
    /\ \/ daily_needs.daily_calories = 0
       \/ daily_needs.protein = 0
       \/ daily_needs.fat = 0
       \/ daily_needs.carbs = 0

\* the list of messages it returns when no division raises
generate_personalized_recommendations(weekly_data, daily_needs) ==
    IF weekly_data = <<>> THEN StartTracking
    ELSE
    LET days == TotalDays(weekly_data)
        t == WeeklyTotals(weekly_data)
        calorie == IF RatioAbove(t.calories, days, daily_needs.daily_calories, 6, 5)
                   THEN <<"You're consuming 20% more calories than needed.">>
                   ELSE IF RatioBelow(t.calories, days, daily_needs.daily_calories, 4, 5)
                   THEN <<"You're under-eating.">>
                   ELSE <<"Your calorie intake is well balanced.">>
        protein == IF RatioBelow(t.protein, days, daily_needs.protein, 4, 5)
                   THEN <<"Increase protein intake.">>
                   ELSE IF RatioAbove(t.protein, days, daily_needs.protein, 13, 10)
                   THEN <<"Your protein intake is quite high.">>
                   ELSE <<>>
        fat == IF RatioAbove(t.fat, days, daily_needs.fat, 6, 5)
               THEN <<"Consider reducing fat intake.">>
               ELSE IF RatioBelow(t.fat, days, daily_needs.fat, 7, 10)
               THEN <<"Your fat intake is low.">>
               ELSE <<>>
        carbs == IF RatioAbove(t.carbs, days, daily_needs.carbs, 13, 10)
                 THEN <<"High carb intake detected.">>
                 ELSE <<>>
        tips == IF Len(weekly_data) < 3 THEN <<"Track more meals to get better insights.">>
                ELSE <<>>
    IN  FirstN(calorie \o protein \o fat \o carbs \o tips, 5)

(***************************************************************************)
(* Harness for generate_personalized_recommendations: the arguments are    *)
(* drawn from bounded sets and the function is applied once.               *)
(***************************************************************************)
MaxWeekly == 8        \* longest weekly data drawn

\* an entry of the weekly data: the fields the function reads, and its timestamp
Meal(calories, protein, fat, carbohydrates, timestamp) ==
    [calories |-> calories,
     nutrition |-> <<[name |-> "protein", value |-> protein],
                     [name |-> "calcium", value |-> 0],
                     [name |-> "fat", value |-> fat],
                     [name |-> "carbohydrates", value |-> carbohydrates],
                     [name |-> "vitamins", value |-> 0]>>,
     timestamp |-> timestamp]

AdviceMeals == {Meal(250000, 10000, 9000, 20000, 0),
                Meal(3000000, 250000, 100000, 500000, 86400)}

AdviceProfiles ==
    {DefaultProfile,
     [DefaultProfile EXCEPT !.weight = 0, !.height = 0, !.age = 1],
     [DefaultProfile EXCEPT !.weight = 0, !.height = 0, !.age = 0, !.gender = "female"]}

AdviceParked == [weekly_data |-> <<>>, daily_needs |-> <<>>]

AdviceIdle == [done |-> FALSE, raised |-> FALSE, recommendations |-> <<>>,
               total_days |-> 0, weekly_totals |-> TotalsOf(<<>>)]

InitAdvice ==
    /\ \E n \in 0..MaxWeekly, pf \in AdviceProfiles :
          \E w \in [1..n -> AdviceMeals] :
             adv_in = [weekly_data |-> w, daily_needs |-> calculate_daily_needs(pf)]
    /\ adv_out = AdviceIdle

Advise ==
    /\ ~adv_out.done
    /\ adv_out' =
         IF adv_in.weekly_data = <<>>
         THEN [AdviceIdle EXCEPT !.done = TRUE, !.recommendations = StartTracking]
         ELSE IF AdviceRaises(adv_in.weekly_data, adv_in.daily_needs)
         THEN [AdviceIdle EXCEPT !.done = TRUE, !.raised = TRUE,
                                 !.total_days = TotalDays(adv_in.weekly_data),
                                 !.weekly_totals = WeeklyTotals(adv_in.weekly_data)]
         ELSE [done |-> TRUE, raised |-> FALSE,
               recommendations |->
                   generate_personalized_recommendations(adv_in.weekly_data,
                                                         adv_in.daily_needs),
               total_days |-> TotalDays(adv_in.weekly_data),
               weekly_totals |-> WeeklyTotals(adv_in.weekly_data)]
    /\ UNCHANGED adv_in

\* GET /
Index ==
    /\ LET hist == ReadOld(history)
           prof == LoadedProfile(profile)
           daily_needs == calculate_daily_needs(prof)
           weekly_data == get_weekly_nutrition(history, now)
       IN  /\ profile' = ProfileAfterGet(profile)
           /\ resp' =
                IF \E i \in 1..Len(hist) : hist[i].main_food.t # "str"
                THEN \* .title() of a main_food that is not a string
                     [route |-> "/", kind |-> "500", error |-> "AttributeError"]
                ELSE IF weekly_data # <<>> /\
                   (daily_needs.daily_calories * 7 = 0 \/ daily_needs.protein * 7 = 0)
                THEN [route |-> "/", kind |-> "500", error |-> "ZeroDivisionError"]
                ELSE [route |-> "/", kind |-> "page",
                      total_analyses |-> Len(hist),
                      weekly_scans |-> Len(weekly_data),
                      avg_calories |-> RoundHE(SumOf(hist, "calories"),
                                               1000 * Max(Len(hist), 1)),
                      avg_hygiene |-> RoundHE(SumOf(hist, "hygiene_score"),
                                              Max(Len(hist), 1)),
                      recent_scans |-> FirstN(hist, 3),
                      daily_needs |-> daily_needs,
                      profile |-> prof]
    /\ UNCHANGED <<history, uploads, session, GENAI, now, pc, local, stored, analyzed,
                   lastDump, nscan, sc_in, sc_out, adv_in, adv_out>>

\* GET /history
HistoryPage ==
    /\ LET hist == ReadOld(history)
       IN  resp' = [route |-> "/history", kind |-> "page",
                    history |-> [i \in 1..Len(hist) |->
                                    hist[i] @@
                                    [time_ago |-> time_ago(hist[i].timestamp, now)]]]
    /\ UNCHANGED <<history, profile, uploads, session, GENAI, now, pc, local, stored,
                   analyzed, lastDump, nscan, sc_in, sc_out, adv_in, adv_out>>

\* GET /history/view?id=...
ViewHistoryQuery(id) ==
    /\ resp' = IF IntRaises(Get(id, Num(-1000)))
               THEN [route |-> "/history/view", kind |-> "500", error |-> "ValueError"]
               ELSE [route |-> "/history/view", kind |-> "redirect",
                     to |-> "/history/view/", item_id |-> IntOf(Get(id, Num(-1000)))]
    /\ UNCHANGED <<history, profile, uploads, session, GENAI, now, pc, local, stored,
                   analyzed, lastDump, nscan, sc_in, sc_out, adv_in, adv_out>>

\* the response of view_each_history(item_id) on the file h
view_each_history(h, item_id) ==
    IF h.st = "absent"
    THEN [route |-> "/history/view/", kind |-> "text", body |-> "History not found."]
    ELSE IF h.st = "unreadable"
    THEN [route |-> "/history/view/", kind |-> "500", error |-> "JSONDecodeError"]
    ELSE IF item_id < 0 \/ item_id >= Len(h.data)
    THEN [route |-> "/history/view/", kind |-> "text", body |-> "Invalid ID."]
    ELSE LET item == h.data[item_id + 1]
         IN  [route |-> "/history/view/", kind |-> "results", pack |-> <<item>>,
              whole_nutrition |-> item.whole_nutrition,
              recommendations |-> IF item.hygiene_score >= 60
                                  THEN <<"Food appears hygienic.">>
                                  ELSE <<"Low hygiene - be cautious.">>,
              item_id |-> item_id]

\* GET /history/view/<int:item_id>
ViewEachHistory(item_id) ==
    /\ resp' = view_each_history(history, item_id)
    /\ UNCHANGED <<history, profile, uploads, session, GENAI, now, pc, local, stored,
                   analyzed, lastDump, nscan, sc_in, sc_out, adv_in, adv_out>>

\* the response of pdf_view(item_id) on the file h
pdf_view(h, item_id) ==
    IF h.st # "json" \/ item_id >= Len(h.data)
    THEN [route |-> "/pdf/view/", kind |-> "text", body |-> "Error loading history."]
    ELSE [route |-> "/pdf/view/", kind |-> "pdf", item |-> h.data[item_id + 1],
          download_name |-> item_id]

\* GET /pdf/view/<int:item_id>
PdfView(item_id) ==
    /\ resp' = pdf_view(history, item_id)
    /\ UNCHANGED <<history, profile, uploads, session, GENAI, now, pc, local, stored,
                   analyzed, lastDump, nscan, sc_in, sc_out, adv_in, adv_out>>

\* GET /profile
ProfileGet ==
    /\ profile' = ProfileAfterGet(profile)
    /\ resp' = [route |-> "/profile", kind |-> "page", profile |-> LoadedProfile(profile)]
    /\ UNCHANGED <<history, uploads, session, GENAI, now, pc, local, stored, analyzed,
                   lastDump, nscan, sc_in, sc_out, adv_in, adv_out>>

\* POST /profile; the response carries, as a ghost field, the form the handler saw
ProfilePost(form) ==
    /\ profile' = [st |-> "json", data |-> ProfileFromForm(LoadedProfile(profile), form)]
    /\ resp' = [route |-> "/profile", kind |-> "redirect", to |-> "/insights",
                form |-> form]
    /\ UNCHANGED <<history, uploads, session, GENAI, now, pc, local, stored, analyzed,
                   lastDump, nscan, sc_in, sc_out, adv_in, adv_out>>

\* GET /insights; the divisions of generate_personalized_recommendations raise
\* ZeroDivisionError on a zero need when there is weekly data
Insights ==
    /\ LET prof == LoadedProfile(profile)
           daily_needs == calculate_daily_needs(prof)
           weekly_data == get_weekly_nutrition(history, now)
       IN  /\ profile' = ProfileAfterGet(profile)
           /\ resp' =
                IF AdviceRaises(weekly_data, daily_needs)
                THEN [route |-> "/insights", kind |-> "500", error |-> "ZeroDivisionError"]
                ELSE [route |-> "/insights", kind |-> "page",
                      ai_text |-> generate_personalized_recommendations(weekly_data,
                                                                        daily_needs),
                      scans |-> Len(weekly_data),
                      total_calories |-> SumOf(weekly_data, "calories"),
                      daily_needs |-> daily_needs,
                      profile |-> prof]
    /\ UNCHANGED <<history, uploads, session, GENAI, now, pc, local, stored, analyzed,
                   lastDump, nscan, sc_in, sc_out, adv_in, adv_out>>

(***************************************************************************)
(* Specifications                                                          *)
(***************************************************************************)
Init ==
    /\ InitWeb
    /\ sc_in = ScaleParked
    /\ sc_out = ScaleIdle
    /\ adv_in = AdviceParked
    /\ adv_out = AdviceIdle

\* Spec: uploads and concurrent /predict requests of two clients
SpecUploads == {u \in UploadForms : u.ext \in {"", ".PNG"}}
SpecQuantities == {NumStr(200)}
OddReply == [GoodReply EXCEPT !.main_food = NameNum,
                              !.top = [t |-> "missing", items |-> <<>>]]
SpecOutcomes ==
    {[outcome |-> "text", r |-> r] : r \in {OddReply, [GoodReply EXCEPT !.text = "garbage"]}}

Next ==
    \/ Tick
    \/ \E c \in Clients, f \in SpecUploads : Analyze(c, f)
    \/ \E c \in Clients, q \in SpecQuantities, a \in SpecOutcomes :
          PredictStart(FreeWorker, c, q, a)
    \/ \E p \in Workers : PredictOpen(p)
    \/ \E p \in Workers : PredictDump(p)

Spec == Init /\ [][Next]_vars

\* SpecRoutes: every route, one client, concurrent /predict requests
ViewIds == 0..MaxScans
IdArgs == {Missing, NumStr(0), Text}
EmptyForm == [weight |-> Empty, height |-> Empty, age |-> Empty,
              gender |-> Str("female"), activity_level |-> NameMissing,
              goal |-> NameMissing]
\* a form whose numbers give a BMR of exactly 0: 10*0 + 6.25*0 - 5*1 + 5
ZeroForm == [weight |-> Empty, height |-> Empty, age |-> NumStr(1),
             gender |-> Str("male"), activity_level |-> NameMissing,
             goal |-> NameMissing]
RoutesForms == {EmptyForm, ZeroForm}
RoutesUpload == [present |-> TRUE, ext |-> ".PNG", kind |-> "image"]

NextRoutes ==
    \/ Tick
    \/ Analyze("c1", RoutesUpload)
    \/ PredictStart(FreeWorker, "c1", Missing, [outcome |-> "text", r |-> GoodReply])
    \/ \E p \in Workers : PredictOpen(p)
    \/ \E p \in Workers : PredictDump(p)
    \/ Index
    \/ HistoryPage
    \/ \E id \in IdArgs : ViewHistoryQuery(id)
    \/ \E id \in ViewIds : ViewEachHistory(id)
    \/ \E id \in ViewIds : PdfView(id)
    \/ ProfileGet
    \/ \E form \in RoutesForms : ProfilePost(form)
    \/ Insights

SpecRoutes == Init /\ [][NextRoutes]_vars

\* SpecAdapter: one client and one request at a time, every reply of the classifier
NextAdapter ==
    \/ \E f \in UploadForms : Analyze("c1", f)
    \/ \E q \in QuantityArgs, a \in ApiOutcomes : PredictStart("w1", "c1", q, a)
    \/ PredictOpen("w1")
    \/ PredictDump("w1")

SpecAdapter == Init /\ [][NextAdapter]_vars

\* SpecFailure: one client and one request at a time; every reply on which /predict
\* persists nothing, and one on which it does
FailureOutcomes ==
    {a \in ApiOutcomes :
        LET r == analyze_with_gemini(TRUE, "image", a)
        IN  \/ ~r.ok
            \/ r.gem.nutrition_per100g.t # "dict"
            \/ \E i \in 1..Len(r.gem.top) : r.gem.top[i].label.t = "list"
            \/ a.r = GoodReply}

NextFailure ==
    \/ \E f \in UploadForms : Analyze("c1", f)
    \/ \E q \in QuantityArgs, a \in FailureOutcomes : PredictStart("w1", "c1", q, a)
    \/ PredictOpen("w1")
    \/ PredictDump("w1")

SpecFailure == Init /\ [][NextFailure]_vars

\* SpecNeeds: the profile store and the pages that compute the daily needs
NeedsWeights == {Missing, Empty, NumStr(70)}
NeedsHeights == {Missing, Text}
NeedsAges == {Missing, NumStr(0)}
NeedsGenders == {NameMissing, Str("male"), Str("female")}
NeedsActivities == {NameMissing, Str("sedentary"), Str("light"), Str("active"),
                    Str("very_active"), Str("couch")}
NeedsGoals == {NameMissing, Str("lose"), Str("gain"), Str("bulk")}
NeedsForms ==
    [weight : NeedsWeights, height : NeedsHeights, age : NeedsAges,
     gender : NeedsGenders, activity_level : NeedsActivities, goal : NeedsGoals]

NextNeeds ==
    \/ ProfileGet
    \/ \E form \in NeedsForms : ProfilePost(form)
    \/ Insights
    \/ Index

InitNeeds ==
    /\ Init
    /\ GENAI

SpecNeeds == InitNeeds /\ [][NextNeeds]_vars

\* SpecScale: compute_nutrition applied to drawn arguments
InitSc ==
    /\ InitWeb
    /\ GENAI
    /\ InitScale
    /\ adv_in = AdviceParked
    /\ adv_out = AdviceIdle

NextScale ==
    /\ ComputeNutrition
    /\ UNCHANGED <<history, profile, uploads, session, GENAI, now, pc, local, resp,
                   stored, analyzed, lastDump, nscan, adv_in, adv_out>>

SpecScale == InitSc /\ [][NextScale]_vars

\* SpecAdvice: generate_personalized_recommendations applied to drawn arguments
InitAdv ==
    /\ InitWeb
    /\ GENAI
    /\ sc_in = ScaleParked
    /\ sc_out = ScaleIdle
    /\ InitAdvice

NextAdvice ==
    /\ Advise
    /\ UNCHANGED <<history, profile, uploads, session, GENAI, now, pc, local, resp,
                   stored, analyzed, lastDump, nscan, sc_in, sc_out>>

SpecAdvice == InitAdv /\ [][NextAdvice]_vars

(***************************************************************************)
(* Properties of compute_nutrition, under SpecScale                        *)
(***************************************************************************)
Abs(x) == IF x < 0 THEN -x ELSE x

\* val (milli) is round(num/100, 2) for the milli product num: a multiple of 0.01
\* within 0.005 of it
IsRounded2(val, num) == val % 10 = 0 /\ Abs(100 * val - num) <= 500

\* the calories argument counts as provided: a non-zero number or a non-empty string
Provided(k) == (k.t = "num" /\ k.v # 0) \/ k.t \in {"numstr", "text"}

\* the number a raw argument stands for: its value, 0 for a non-numeric one
NumberOf(x) == IF x.t \in {"num", "numstr"} THEN x.v ELSE 0

MacroCalories(final) == 4 * final[1].value + 4 * final[4].value + 9 * final[3].value

\* C7 (as the code has it): when the per-100g calories argument is a non-zero
\* number or any non-empty string, the calories are its numeric value (0 for a
\* non-numeric string) times quantity/100, rounded to two decimals; otherwise they
\* are 4*protein + 4*carbohydrates + 9*fat of the already-scaled values.
C7_CaloriesRule ==
    sc_out.done =>
        IF Provided(sc_in.calories100)
        THEN IsRounded2(sc_out.calories, NumberOf(sc_in.calories100) * sc_in.qty)
        ELSE sc_out.calories = MacroCalories(sc_out.final)

\* the example of C7: 10/5/20 per 100 g, no calories, 200 g
C7_Example ==
    /\ sc_out.done
    /\ sc_in.nut_map.protein = Num(10000)
    /\ sc_in.nut_map.fat = Num(5000)
    /\ sc_in.nut_map.carbohydrates = Num(20000)
    /\ sc_in.calories100 = Num(0)
    /\ sc_in.qty = 200
    /\ sc_out.final[1].value = 20000
    /\ sc_out.final[3].value = 10000
    /\ sc_out.final[4].value = 40000
    /\ sc_out.calories = 330000

\* C7 as stated: provided non-zero calories times quantity/100 exactly, and the
\* macro formula whenever the provided value is zero or absent
C7_AsStated ==
    sc_out.done =>
        IF NumberOf(sc_in.calories100) # 0
        THEN 100 * sc_out.calories = NumberOf(sc_in.calories100) * sc_in.qty
        ELSE sc_out.calories = MacroCalories(sc_out.final)

\* C8 (as the code has it): with quantity 100 every nutrient is its per-100g input
\* rounded to two decimals, a missing or non-numeric input counting as 0; with
\* quantity 0 every nutrient and the calories are 0.
C8_IdentityAndZero ==
    sc_out.done =>
        /\ sc_in.qty = 100 =>
              \A i \in 1..5 :
                 IsRounded2(sc_out.final[i].value,
                            100 * NumberOf(Get(sc_in.nut_map[keys[i]], Num(0))))
        /\ sc_in.qty = 0 =>
              /\ \A i \in 1..5 : sc_out.final[i].value = 0
              /\ sc_out.calories = 0

\* quantity 100 on an input with three decimals: 3.125 comes back as 3.12
C8_RoundedIdentity ==
    /\ sc_out.done
    /\ sc_in.qty = 100
    /\ sc_in.nut_map.protein = Num(3125)
    /\ sc_out.final[1].value = 3120

\* C8 as stated: quantity 100 returns every numeric per-100g input unchanged
C8_AsStated ==
    (sc_out.done /\ sc_in.qty = 100) =>
        \A i \in 1..5 :
           sc_in.nut_map[keys[i]].t = "num" =>
              sc_out.final[i].value = sc_in.nut_map[keys[i]].v

(***************************************************************************)
(* Properties of calculate_daily_needs, under SpecNeeds                    *)
(***************************************************************************)
\* a page that shows the daily needs of the profile it loaded
NeedsPage == resp.kind = "page" /\ resp.route \in {"/", "/insights"}

\* C9 (as the code has it): for weight 70, height 170, age 30, male, moderate,
\* maintain the BMR is 1617.5, the TDEE 2507.125, daily_calories 2507 and
\* protein 188 g.
C9_DefaultProfileNeeds ==
    (NeedsPage /\ resp.profile = DefaultProfile) =>
        /\ 10 * BMR4(resp.profile) = 4 * 16175
        /\ 1000 * TDEE160(resp.profile) = 160 * 2507125
        /\ resp.daily_needs.daily_calories = 2507
        /\ resp.daily_needs.protein = 188

C9_DefaultProfileShown ==
    /\ NeedsPage
    /\ resp.profile = DefaultProfile
    /\ resp.daily_needs.daily_calories = 2507

\* C9 as stated: BMR 1649.25, daily_calories 2556 and protein 192 g
C9_AsStated ==
    (NeedsPage /\ resp.profile = DefaultProfile) =>
        /\ 100 * BMR4(resp.profile) = 4 * 164925
        /\ resp.daily_needs.daily_calories = 2556
        /\ resp.daily_needs.protein = 192

\* C10: for every profile the profile store holds, the daily needs computed from
\* it have daily_calories > 0.
C10_PositiveCalories ==
    (NeedsPage /\ profile.st = "json" /\ resp.profile = profile.data) =>
        resp.daily_needs.daily_calories > 0

(***************************************************************************)
(* Properties of the history store and of /predict                        *)
(***************************************************************************)
SuccessfulPredict(r) == r.route = "/predict" /\ r.kind = "results" /\ r.pack # <<>>

\* handler p closes history.json and renders in this step
Dumping(p) == pc[p] = "predict_dump" /\ pc'[p] = "idle"

InFile(e, h) == h.st = "json" /\ \E i \in 1..Len(h.data) : h.data[i] = e

\* a handler that no other /predict has overlapped still sees the file it read
UnracedSeesItsRead ==
    \A p \in Workers :
       (pc[p] = "predict_open" /\ ~local[p].raced) => ReadOld(history) = local[p].old

DumpStep ==
    \A p \in Workers :
       Dumping(p) =>
          /\ SuccessfulPredict(resp')
          /\ history'.st = "json" \/ local[p].dirty
          /\ ~local[p].raced => history'.st = "json"
          /\ history'.st = "json" =>
                /\ Len(history'.data) = Len(local[p].old) + 1
                /\ history'.data[1].nutrition = resp'.pack[1].nutrition
                /\ history'.data[1].calories = resp'.pack[1].calories
                /\ history'.data[1].whole_nutrition = resp'.whole_nutrition
                /\ history'.data[1].timestamp = local[p].entry.timestamp
                /\ Tail(history'.data) = local[p].old

\* C1 (as the code has it): after a successful /predict whose write no overlapping
\* /predict tore, reloading history.json yields the new entry at index 0 with the
\* nutrient values and the timestamp computed in that request, followed by the
\* entries that request read from history.json, in their order: one more than it
\* read. When no other /predict overlapped the request, the entries it read are
\* the entries that were stored when it wrote.
C1_ReloadAfterPredict == []UnracedSeesItsRead /\ [][DumpStep]_vars

\* a second scan, a second later, stored in front of the first
C1_SecondScanStored ==
    /\ SuccessfulPredict(resp)
    /\ history.st = "json"
    /\ Len(history.data) = 2
    /\ history.data[1].timestamp = 1
    /\ history.data[2].timestamp = 0
    /\ history.data[1].nutrition = resp.pack[1].nutrition

\* C1 as stated: after every successful /predict the file holds the new entry
\* followed by every entry stored before
C1_AsStated ==
    [][SuccessfulPredict(resp') =>
          /\ history'.st = "json"
          /\ history'.data[1].nutrition = resp'.pack[1].nutrition
          /\ \A e \in stored : \E i \in 2..Len(history'.data) : history'.data[i] = e]_vars

\* C3: the whole file is the last writer's: whenever history.json is readable after
\* a write it is exactly the last writer's new entry followed by what that writer
\* read, so of two requests that read the same history only the later writer's
\* entry remains.
C3_LastWriterWins ==
    (history.st = "json") =>
        history.data = JsonDump(<<lastDump.entry>> \o lastDump.old)

\* both requests succeeded and wrote distinct entries on top of the same (empty)
\* history; the file holds one of them
C3_LostUpdate ==
    /\ \A p \in Workers : pc[p] = "idle"
    /\ nscan = 2
    /\ Cardinality(stored) = 2
    /\ lastDump.old = <<>>
    /\ history.st = "json"
    /\ Len(history.data) = 1

\* C4: a /predict of a client whose session holds no last image renders the empty
\* result set, classifies nothing and leaves history.json as it is.
C4_NoSessionImage ==
    [][(resp'.route = "/predict" /\ session[resp'.client] = NoFile) =>
          /\ resp'.kind = "results"
          /\ resp'.pack = <<>>
          /\ resp'.whole_nutrition = <<>>
          /\ resp'.recommendations = <<>>
          /\ ~resp'.classified
          /\ history' = history
          /\ stored' = stored
          /\ pc' = pc]_vars

\* a client without an upload asks for /predict while the history holds a scan
C4_EmptyResults ==
    /\ resp.route = "/predict"
    /\ session[resp.client] = NoFile
    /\ resp.pack = <<>>
    /\ history.st = "json"
    /\ Len(history.data) = 1

\* the entry names the file f that client c uploaded
FromUpload(e, c, f) ==
    /\ <<c, f>> \in analyzed
    /\ \E u \in uploads : u.name = f
    /\ e.image = [path |-> "/static/uploads/", name |-> f]
    /\ Len(e.nutrition) = 5

FlowOrder ==
    /\ \A c \in Clients : session[c] # NoFile => <<c, session[c]>> \in analyzed
    /\ \A p \in Workers :
          pc[p] # "idle" => /\ session[local[p].client] # NoFile
                            /\ FromUpload(local[p].entry, local[p].client, local[p].filename)
    /\ \A e \in stored : \E c \in Clients, u \in uploads : FromUpload(e, c, u.name)

PersistStep ==
    history' # history =>
        \E p \in Workers :
           /\ pc[p] \in {"predict_open", "predict_dump"}
           /\ pc'[p] # pc[p]
           /\ history'.st = "json" => history'.data[1] = JsonEntry(local[p].entry)

\* C6: every entry persisted to history.json comes from a /predict that ran after
\* an /analyze of the same session saved the image file and set the session's last
\* image, and that classified and scaled that image; the entry's image path names
\* that file.
C6_UploadBeforePersist == []FlowOrder /\ [][PersistStep]_vars

C6_EntryOfUpload ==
    /\ history.st = "json"
    /\ Len(history.data) >= 1
    /\ \E c \in Clients : /\ session[c] # NoFile
                          /\ FromUpload(history.data[1], c, session[c])

(***************************************************************************)
(* Properties of the classification adapter, under SpecAdapter             *)
(***************************************************************************)
\* C5: with the client available, a decodable image and a reply from the model,
\* /predict never answers with an error: it persists an entry and renders it.
C5_MalformedRepliesDefaulted ==
    (resp.route = "/predict" /\ resp.saw # NoFile /\ GENAI /\ resp.image = "image"
        /\ resp.api = "text")
    => SuccessfulPredict(resp)

(***************************************************************************)
(* Properties of the history store across all routes, under SpecRoutes     *)
(***************************************************************************)
EntriesAsWritten ==
    history.st = "json" => \A i \in 1..Len(history.data) : history.data[i] \in stored

OnlyPredictWrites ==
    /\ history' # history => \E p \in Workers : pc[p] # "idle" /\ pc'[p] # pc[p]
    /\ stored \subseteq stored'
    /\ \A p \in Workers :
          (Dumping(p) /\ ~local[p].raced) =>
              /\ history'.st = "json"
              /\ Tail(history'.data) = local[p].old

\* C2 (as the code has it): no request changes a field of a stored entry and no
\* route but /predict writes history.json (the time_ago annotation of /history is
\* never persisted); a /predict that no other /predict overlaps keeps every entry
\* that is in the file. Overlapping /predict requests can remove entries.
C2_EntriesNeverAltered ==
    []EntriesAsWritten /\ []UnracedSeesItsRead /\ [][OnlyPredictWrites]_vars

\* /history has annotated two stored entries and the file still holds them as written
C2_HistoryShown ==
    /\ resp.route = "/history"
    /\ Len(resp.history) = 2
    /\ resp.history[1].time_ago.unit = "Just now"
    /\ history.st = "json"
    /\ \A i \in 1..2 : history.data[i] \in stored

\* C2 as stated: once no request is in flight, every entry ever stored is in the file
C2_AsStated ==
    (\A p \in Workers : pc[p] = "idle") => \A e \in stored : InFile(e, history)

(***************************************************************************)
(* Properties of generate_personalized_recommendations, under SpecAdvice   *)
(***************************************************************************)
\* C11: whatever the weekly data and the daily needs, the list returned has at most
\* 5 messages; for empty weekly data it is exactly the one "start tracking" message,
\* and for non-empty data that message is not in it.
C11_AtMostFive ==
    (adv_out.done /\ ~adv_out.raised) =>
        /\ Len(adv_out.recommendations) <= 5
        /\ adv_in.weekly_data = <<>> =>
              adv_out.recommendations =
                  <<"Start tracking your food to get personalized recommendations!">>
        /\ adv_in.weekly_data # <<>> =>
              /\ Len(adv_out.recommendations) >= 1
              /\ \A i \in 1..Len(adv_out.recommendations) :
                    adv_out.recommendations[i] #
                        "Start tracking your food to get personalized recommendations!"

\* one large meal against the default needs: all five kinds of message
C11_FiveMessages ==
    /\ adv_out.done
    /\ Len(adv_in.weekly_data) = 1
    /\ Len(adv_out.recommendations) = 5

(***************************************************************************)
(* Properties of POST /profile, under SpecNeeds                            *)
(***************************************************************************)
\* a form field that is missing or is not a number
Malformed(x) == x.t \notin {"num", "numstr"}

\* C12: after POST /profile with a missing or non-numeric weight, height or age,
\* the stored profile, from which the daily needs are computed, holds that field's
\* default (70 kg, 170 cm, 30 years).
C12_MalformedFieldsDefaulted ==
    (resp.route = "/profile" /\ resp.kind = "redirect") =>
        /\ Malformed(resp.form.weight) => profile.data.weight = 70
        /\ Malformed(resp.form.height) => profile.data.height = 170
        /\ Malformed(resp.form.age) => profile.data.age = 30

(***************************************************************************)
(* Properties of the weekly averages, under SpecAdvice                     *)
(***************************************************************************)
\* the calendar days on which the entries were scanned
DaysOf(list) == {list[i].timestamp \div 86400 : i \in 1..Len(list)}

RECURSIVE SumUpTo(_, _, _)
\* the sum of one quantity over the first n entries
SumUpTo(list, n, what) ==
    IF n = 0 THEN 0
    ELSE SumUpTo(list, n - 1, what) +
         (IF what = "calories" THEN list[n].calories
          ELSE NutrientOf(list[n].nutrition, what))

\* C13: the sums run over the first 7 entries at most, and the divisor of the daily
\* averages is the count of days those entries cover (at most 7).
C13_DailyAverages ==
    (adv_out.done /\ adv_in.weekly_data # <<>>) =>
        LET w == adv_in.weekly_data
            n == IF Len(w) < 7 THEN Len(w) ELSE 7
        IN  /\ adv_out.weekly_totals.calories = SumUpTo(w, n, "calories")
            /\ adv_out.weekly_totals.protein = SumUpTo(w, n, "protein")
            /\ adv_out.weekly_totals.fat = SumUpTo(w, n, "fat")
            /\ adv_out.weekly_totals.carbs = SumUpTo(w, n, "carbohydrates")
            /\ adv_out.total_days = Cardinality(DaysOf(SubSeq(w, 1, n)))

(***************************************************************************)
(* Properties of the normalized predictions, under SpecAdapter             *)
(***************************************************************************)
\* C14: every confidence in the predictions that /predict renders and stores lies
\* on the 0-100 scale.
C14_ScoresOnScale ==
    SuccessfulPredict(resp) =>
        \A i \in 1..Len(resp.pack[1].result) :
           /\ resp.pack[1].result[i].v >= 0
           /\ resp.pack[1].result[i].v <= 100000

(***************************************************************************)
(* Properties of the positional view links, under SpecRoutes               *)
(***************************************************************************)
\* history.json as handler p read it
FileRead(p) == [st |-> "json", data |-> local[p].old]

OutOfRange ==
    \A id \in ViewIds :
       /\ (history.st = "json" /\ id >= Len(history.data)) =>
             /\ view_each_history(history, id).kind = "text"
             /\ view_each_history(history, id).body = "Invalid ID."
       /\ history.st = "absent" =>
             /\ view_each_history(history, id).kind = "text"
             /\ view_each_history(history, id).body = "History not found."

ShiftByOne ==
    \A p \in Workers :
       (Dumping(p) /\ ~local[p].raced) =>
          /\ view_each_history(history', 0).pack = <<JsonEntry(local[p].entry)>>
          /\ pdf_view(history', 0).item = JsonEntry(local[p].entry)
          /\ \A k \in 0..(Len(local[p].old) - 1) :
                /\ view_each_history(history', k + 1).pack =
                      view_each_history(FileRead(p), k).pack
                /\ pdf_view(history', k + 1).item = pdf_view(FileRead(p), k).item

\* C15 (as the code has it): after a successful /predict that no other /predict
\* overlapped, the entry that /history/view/k and /pdf/view/k served before is served
\* at k+1 and position 0 serves the new entry; while history.json is readable an id
\* at or beyond its length yields "Invalid ID." from /history/view, and while the
\* file does not exist every id yields "History not found.".
C15_LinksShift == []OutOfRange /\ []UnracedSeesItsRead /\ [][ShiftByOne]_vars

\* the first scan, once served at 0, is served at 1 after a later scan
C15_OlderServedAtOne ==
    /\ resp.route = "/history/view/"
    /\ resp.kind = "results"
    /\ resp.item_id = 1
    /\ resp.pack[1].timestamp = 0
    /\ history.st = "json"
    /\ Len(history.data) = 2
    /\ history.data[1].timestamp = 1

\* C15 as stated: after every successful /predict each entry stored before is
\* served at a position one further on
C15_AsStated ==
    [][SuccessfulPredict(resp') =>
          \A e \in stored :
             \E k \in 1..MaxScans :
                /\ view_each_history(history', k).kind = "results"
                /\ view_each_history(history', k).pack = <<e>>]_vars

(***************************************************************************)
(* Properties of a failed classification, under SpecFailure                *)
(***************************************************************************)
\* the uploaded file of that name decodes as an image
Decodable(name) == \E u \in uploads : u.name = name /\ u.kind = "image"

\* a /predict handler answers in this step without having gone on to persist
AnswersAtOnce == resp'.route = "/predict" /\ resp'.saw # NoFile /\ pc' = pc

FailedClassification ==
    /\ AnswersAtOnce =>
          /\ (~GENAI \/ ~Decodable(resp'.saw) \/ resp'.api = "raise") =>
                resp'.kind = "text"
          /\ resp'.kind = "text" =>
                /\ resp'.body = "Gemini error"
                /\ ~GENAI => resp'.msg = "Gemini not available"
                /\ (GENAI /\ ~Decodable(resp'.saw)) => resp'.msg = "Invalid Image"
                /\ history' = history
                /\ session' = session
                /\ stored' = stored
    /\ \A p \in Workers :
          (pc[p] = "idle" /\ pc'[p] # "idle") =>
              GENAI /\ Decodable(local'[p].filename)

\* C16: when the classification fails inside /predict (client unavailable,
\* undecodable image, or an exception of the adapter), the handler answers with the
\* "Gemini error: ..." string and leaves history.json and the session's last image
\* as they were; only a request whose image was classified goes on to persist.
C16_FailureChangesNothing == [][FailedClassification]_vars

\* an unparsable reply was refused while the history holds an earlier scan
C16_RefusedAfterScan ==
    /\ resp.route = "/predict"
    /\ resp.kind = "text"
    /\ resp.msg = "JSONDecodeError"
    /\ session[resp.client] = resp.saw
    /\ history.st = "json"
    /\ Len(history.data) = 1

(***************************************************************************)
(* Properties of the divisions by the daily needs, under SpecRoutes        *)
(***************************************************************************)
\* C17: whatever profile POST /profile stored and whatever the weekly history, /
\* and /insights never fail on a division by zero.
C17_NoZeroDivision ==
    (resp.route \in {"/", "/insights"} /\ resp.kind = "500") =>
        resp.error # "ZeroDivisionError"

====
